---------------------------- MODULE Spec2Model ----------------------------
(***************************************************************************)
(* A model of the 3D Conway engine of annebrandes/conway-3d:               *)
(*   src/app/types/conway.ts       the coordinate codec                    *)
(*   src/app/utils/conwayLogic.ts  countNeighbors, computeNextGeneration,  *)
(*                                 generateRandomCells                     *)
(* A JavaScript Set<string> is an object on a heap whose contents are kept *)
(* in insertion order; a key is the sequence of its characters.            *)
(***************************************************************************)
EXTENDS Integers, Sequences, FiniteSets, TLC

VARIABLES
    heap,       \* the Set objects: heap[r] is the insertion-ordered contents of Set r
    gameState,  \* the GameState record handed to the engine (activeCells is a reference)
    pc,         \* which call has been made
    ret,        \* reference returned by computeNextGeneration / generateRandomCells (0: none)
    other,      \* a second GameState and the reference computeNextGeneration returned for it
    posArg,     \* the pos argument of countNeighbors
    count,      \* value returned by countNeighbors
    codecIn,    \* the positions given to serializePosition
    keys,       \* keys returned by serializePosition, one per position of codecIn
    decoded,    \* positions returned by deserializePosition, one per key of keys
    seed,       \* the frame of generateRandomCells: gridSize, totalCells, i, newActiveCells
    queue,      \* the updaters passed to setGameState since the last render, in order
    lastUpdateRef,  \* lastUpdateRef.current of ConwayGrid, in ticks
    frameDelta, \* the delta, in ticks, of the last frame that found the game running
    timers      \* the timers initializeRandom of ConwayGame3D.tsx has set, in the order set

vars == <<heap, gameState, pc, ret, other, posArg, count, codecIn, keys, decoded, seed,
          queue, lastUpdateRef, frameDelta, timers>>

\* what the components hold besides the game state
rendering == <<queue, lastUpdateRef, frameDelta, timers>>

-----------------------------------------------------------------------------
(* Bounds of the model *)

\* the input active set is drawn from the first MaxCells cells of Pattern
MaxCells == 9
\* the gridSize of a game state that is stepped ranges over -NegGridSize .. MaxGridSize
NegGridSize == 1
MaxGridSize == 2
\* the gridSize the mount effect seeds ranges over -NegGridSize .. MaxSeedSize
MaxSeedSize == 3
\* the example active sets are drawn from the first MaxExampleCells cells of
\* ExamplePattern
MaxExampleCells == 7
\* at most MaxQueue updaters wait for a render
MaxQueue == 2
\* the grid-size selector offers its first MaxGridOptions sizes
MaxGridOptions == 2
\* a tick is 1 / TicksPerSecond seconds
TicksPerSecond == 2
\* at most MaxTimers timers of initializeRandom are pending at a time
MaxTimers == 2
\* a frame lasts 1 tick or MaxDelta ticks
MaxDelta == 3
\* Math.random() returns k / RandDenom for the numerators of RandomNumerators
RandDenom == 10
\* the codec is exercised on coordinates of magnitude 0, 1 and CodecBig
CodecBig == 11

-----------------------------------------------------------------------------
(* Strings *)

DigitChars == <<"0", "1", "2", "3", "4", "5", "6", "7", "8", "9">>

NaN == "NaN"

RECURSIVE NatToString(_)
NatToString(n) ==
    IF n < 10 THEN <<DigitChars[n + 1]>>
    ELSE NatToString(n \div 10) \o <<DigitChars[(n % 10) + 1]>>

\* a conversion that loses the sign
NumberToStringUnsigned(n) ==
    IF n < 0 THEN NatToString(0 - n) ELSE NatToString(n)

\* the template literal's conversion of an integer-valued number: `${n}`
NumberToString(n) ==
    IF n < 0 THEN <<"-">> \o NatToString(0 - n) ELSE NatToString(n)

DigitValue(c) == CHOOSE d \in 0..9 : DigitChars[d + 1] = c

IsDigits(s) ==
    /\ Len(s) > 0
    /\ \A i \in 1..Len(s) : \E d \in 1..10 : DigitChars[d] = s[i]

RECURSIVE DigitsToNat(_)
DigitsToNat(s) ==
    IF Len(s) = 0 THEN 0
    ELSE 10 * DigitsToNat(SubSeq(s, 1, Len(s) - 1)) + DigitValue(s[Len(s)])

\* Number(str) on the strings the engine can build: "" is 0, an optionally
\* signed decimal is its value, anything else is NaN
StringToNumber(s) ==
    IF Len(s) = 0 THEN 0
    ELSE IF IsDigits(s) THEN DigitsToNat(s)
    ELSE IF s[1] = "-" /\ IsDigits(Tail(s)) THEN 0 - DigitsToNat(Tail(s))
    ELSE IF s[1] = "+" /\ IsDigits(Tail(s)) THEN DigitsToNat(Tail(s))
    ELSE NaN

\* key.split(',')
RECURSIVE Split(_)
Split(s) ==
    IF \A i \in 1..Len(s) : s[i] # ","
    THEN <<s>>
    ELSE LET i == CHOOSE j \in 1..Len(s) :
                      /\ s[j] = ","
                      /\ \A k \in 1..(j - 1) : s[k] # ","
         IN  <<SubSeq(s, 1, i - 1)>> \o Split(SubSeq(s, i + 1, Len(s)))

-----------------------------------------------------------------------------
(* The coordinate codec *)

serializePosition(pos) ==
    NumberToString(pos[1]) \o <<",">> \o NumberToString(pos[2])
        \o <<",">> \o NumberToString(pos[3])

\* parts.map(Number)
RECURSIVE MapNumber(_)
MapNumber(parts) ==
    IF Len(parts) = 0 THEN <<>>
    ELSE <<StringToNumber(Head(parts))>> \o MapNumber(Tail(parts))

deserializePosition(key) == MapNumber(Split(key))

-----------------------------------------------------------------------------
(* JavaScript Set<string> *)

SetHas(s, k) == \E i \in 1..Len(s) : s[i] = k

SetAdd(s, k) == IF SetHas(s, k) THEN s ELSE Append(s, k)

\* new Set<string>(): the heap with one more, empty, object; its reference is Len
\* a Set that is created holding the origin
NewSetWithOrigin(h) == Append(h, << <<"0", ",", "0", ",", "0">> >>)

NewSet(h) == Append(h, <<>>)

HeapAdd(h, r, k) == [h EXCEPT ![r] = SetAdd(@, k)]

-----------------------------------------------------------------------------
(* The neighbourhood loops: dx, dy, dz from -1 to 1, skipping (0, 0, 0) *)

Deltas ==
    LET all == [i \in 1..27 |->
                  <<((i - 1) \div 9) - 1, (((i - 1) \div 3) % 3) - 1, ((i - 1) % 3) - 1>>]
    IN  SelectSeq(all, LAMBDA d : d # <<0, 0, 0>>)

Shift(pos, d) == <<pos[1] + d[1], pos[2] + d[2], pos[3] + d[3]>>

-----------------------------------------------------------------------------
(* Sequencing: F applied to the value of v, v being computed first.  A loop
   over the positions lo..hi of a sequence runs its first half, then its
   second half on the heap the first half left, so the positions are visited
   in increasing order, as the loop of the code visits them. *)

Then(v, F(_)) == CHOOSE r \in {F(x) : x \in {v}} : TRUE

-----------------------------------------------------------------------------
(* countNeighbors: conwayLogic.ts lines 4-26.  h is the heap, activeCells a
   reference into it.  count is incremented once for each of the 26 offsets
   whose key the Set has. *)

\* a count that does not skip the cell itself
countNeighborsWithSelf(h, pos, activeCells) ==
    Cardinality({d \in {<<dx, dy, dz>> : dx \in {-1, 0, 1}, dy \in {-1, 0, 1}, dz \in {-1, 0, 1}} :
                    SetHas(h[activeCells], serializePosition(Shift(pos, d)))})

\* a count that starts from -1
countNeighborsFromMinusOne(h, pos, activeCells) ==
    Cardinality({i \in 1..Len(Deltas) :
                    SetHas(h[activeCells], serializePosition(Shift(pos, Deltas[i])))}) - 1

countNeighbors(h, pos, activeCells) ==
    Cardinality({i \in 1..Len(Deltas) :
                    SetHas(h[activeCells], serializePosition(Shift(pos, Deltas[i])))})

-----------------------------------------------------------------------------
(* computeNextGeneration: conwayLogic.ts lines 29-73 *)

\* a copy that misses the first cell the Set iterates
CopyLoopSkipFirst(h, activeCells, cellsToCheck, lo, hi) ==
    [h EXCEPT ![cellsToCheck] = @ \o SubSeq(h[activeCells], lo + 1, hi)]

\* a copy that adds nothing: the active cells are left out of the candidates
CopyLoopNothing(h, activeCells, cellsToCheck, lo, hi) == h

\* line 37: activeCells.forEach(cell => cellsToCheck.add(cell))
RECURSIVE CopyLoop(_, _, _, _, _)
CopyLoop(h, activeCells, cellsToCheck, lo, hi) ==
    IF lo > hi THEN h
    ELSE IF lo = hi THEN HeapAdd(h, cellsToCheck, h[activeCells][lo])
    ELSE LET mid == (lo + hi) \div 2
         IN  Then(CopyLoop(h, activeCells, cellsToCheck, lo, mid),
                  LAMBDA x : CopyLoop(x, activeCells, cellsToCheck, mid + 1, hi))

\* a bounds test that lets the axis value gridSize through
OutsideGridOffByOne(neighborPos, gridSize) ==
    \E a \in 1..Len(neighborPos) : neighborPos[a] < 0 \/ neighborPos[a] > gridSize

\* line 50: neighborPos.some(coord => coord < 0 || coord >= gridSize)
OutsideGrid(neighborPos, gridSize) ==
    \E a \in 1..Len(neighborPos) : neighborPos[a] < 0 \/ neighborPos[a] >= gridSize

\* lines 43-55: the three nested loops for one active cell
RECURSIVE DeltaLoop(_, _, _, _, _, _)
DeltaLoop(h, cellsToCheck, pos, gridSize, lo, hi) ==
    IF lo > hi THEN h
    ELSE IF lo = hi
    THEN LET neighborPos == Shift(pos, Deltas[lo])
         IN  IF OutsideGrid(neighborPos, gridSize) THEN h
             ELSE HeapAdd(h, cellsToCheck, serializePosition(neighborPos))
    ELSE LET mid == (lo + hi) \div 2
         IN  Then(DeltaLoop(h, cellsToCheck, pos, gridSize, lo, mid),
                  LAMBDA x : DeltaLoop(x, cellsToCheck, pos, gridSize, mid + 1, hi))

\* lines 40-56: activeCells.forEach(cell => ...)
RECURSIVE NeighborLoop(_, _, _, _, _, _)
NeighborLoop(h, activeCells, cellsToCheck, gridSize, lo, hi) ==
    IF lo > hi THEN h
    ELSE IF lo = hi
    THEN DeltaLoop(h, cellsToCheck, deserializePosition(h[activeCells][lo]),
                   gridSize, 1, Len(Deltas))
    ELSE LET mid == (lo + hi) \div 2
         IN  Then(NeighborLoop(h, activeCells, cellsToCheck, gridSize, lo, mid),
                  LAMBDA x : NeighborLoop(x, activeCells, cellsToCheck, gridSize, mid + 1, hi))

\* a survival window that opens one neighbour too late
InNextGenerationLateSurvival(isAlive, neighbors) ==
    \/ isAlive /\ (neighbors > 4 /\ neighbors <= 6)
    \/ ~isAlive /\ (neighbors >= 5 /\ neighbors <= 7)

\* a survival window with no lower end
InNextGenerationNoLowerEnd(isAlive, neighbors) ==
    \/ isAlive /\ neighbors <= 6
    \/ ~isAlive /\ (neighbors >= 5 /\ neighbors <= 7)

\* a survival window that opens above 4
InNextGenerationAboveFour(isAlive, neighbors) ==
    \/ isAlive /\ (neighbors >= 5 /\ neighbors <= 6)
    \/ ~isAlive /\ (neighbors >= 5 /\ neighbors <= 7)

\* a birth window that opens one neighbour too late
InNextGenerationLateBirth(isAlive, neighbors) ==
    \/ isAlive /\ (neighbors >= 4 /\ neighbors <= 6)
    \/ ~isAlive /\ (neighbors > 5 /\ neighbors <= 7)

\* a survival window that opens at 3
InNextGenerationFromThree(isAlive, neighbors) ==
    \/ isAlive /\ (neighbors >= 3 /\ neighbors <= 6)
    \/ ~isAlive /\ (neighbors >= 5 /\ neighbors <= 7)

\* lines 65-69: survive with 4-6 neighbours, born with 5-7
InNextGeneration(isAlive, neighbors) ==
    \/ isAlive /\ (neighbors >= 4 /\ neighbors <= 6)
    \/ ~isAlive /\ (neighbors >= 5 /\ neighbors <= 7)

\* lines 59-70: cellsToCheck.forEach(cellKey => ...)
RECURSIVE RuleLoop(_, _, _, _, _, _)
RuleLoop(h, activeCells, cellsToCheck, newActiveCells, lo, hi) ==
    IF lo > hi THEN h
    ELSE IF lo = hi
    THEN LET cellKey == h[cellsToCheck][lo]
             pos == deserializePosition(cellKey)
             isAlive == SetHas(h[activeCells], cellKey)
             neighbors == countNeighbors(h, pos, activeCells)
         IN  IF InNextGeneration(isAlive, neighbors)
             THEN HeapAdd(h, newActiveCells, cellKey) ELSE h
    ELSE LET mid == (lo + hi) \div 2
         IN  Then(RuleLoop(h, activeCells, cellsToCheck, newActiveCells, lo, mid),
                  LAMBDA x : RuleLoop(x, activeCells, cellsToCheck, newActiveCells, mid + 1, hi))

\* a step that writes the next generation into the Set it was given
computeNextGenerationInPlace(h, gs) ==
    LET newActiveCells == gs.activeCells
        h2 == NewSet(h)
        cellsToCheck == Len(h2)
        h3 == CopyLoop(h2, gs.activeCells, cellsToCheck, 1, Len(h2[gs.activeCells]))
        h4 == NeighborLoop(h3, gs.activeCells, cellsToCheck, gs.gridSize,
                           1, Len(h3[gs.activeCells]))
        h5 == RuleLoop(h4, gs.activeCells, cellsToCheck, newActiveCells,
                       1, Len(h4[cellsToCheck]))
    IN  [heap |-> SubSeq(h5, 1, Len(h5) - 1), ret |-> newActiveCells]

\* a step that examines only the neighbours it collected inside the grid
computeNextGenerationNoCopy(h, gs) ==
    LET h1 == NewSet(h)
        newActiveCells == Len(h1)
        h2 == NewSet(h1)
        cellsToCheck == Len(h2)
        h4 == NeighborLoop(h2, gs.activeCells, cellsToCheck, gs.gridSize,
                           1, Len(h2[gs.activeCells]))
        h5 == RuleLoop(h4, gs.activeCells, cellsToCheck, newActiveCells,
                       1, Len(h4[cellsToCheck]))
    IN  [heap |-> SubSeq(h5, 1, Len(h5) - 1), ret |-> newActiveCells]

\* the heap and the reference returned; the local cellsToCheck, allocated last,
\* is unreachable on return and is dropped
computeNextGeneration(h, gs) ==
    LET h1 == NewSet(h)
        newActiveCells == Len(h1)
        h2 == NewSet(h1)
        cellsToCheck == Len(h2)
        h3 == CopyLoop(h2, gs.activeCells, cellsToCheck, 1, Len(h2[gs.activeCells]))
        h4 == NeighborLoop(h3, gs.activeCells, cellsToCheck, gs.gridSize,
                           1, Len(h3[gs.activeCells]))
        h5 == RuleLoop(h4, gs.activeCells, cellsToCheck, newActiveCells,
                       1, Len(h4[cellsToCheck]))
    IN  [heap |-> SubSeq(h5, 1, Len(h5) - 1), ret |-> newActiveCells]

-----------------------------------------------------------------------------
(* generateRandomCells: conwayLogic.ts lines 76-90 *)

\* line 80: Math.floor((gridSize * gridSize * gridSize) * 0.1)
TotalCells(gridSize) == (gridSize * gridSize * gridSize) \div 10

\* Math.random() is k / RandDenom, 0 <= k < RandDenom: the least and the greatest
RandomNumerators == {0, RandDenom - 1}

\* Math.ceil in the place of Math.floor
RandomCoordCeil(k, gridSize) == 0 - ((0 - (k * gridSize)) \div RandDenom)

\* lines 83-85: Math.floor(Math.random() * gridSize), for Math.random() = k / RandDenom
RandomCoord(k, gridSize) == (k * gridSize) \div RandDenom

-----------------------------------------------------------------------------
(* The inputs the engine is called on *)

\* a 3 x 2 x 2 block around the origin: the column x = 0, then x = -1, then x = 1
Pattern ==
    << <<0, 0, 0>>,  <<0, 1, 0>>,  <<0, 0, 1>>,  <<0, 1, 1>>,
       <<-1, 0, 0>>, <<-1, 1, 0>>, <<-1, 0, 1>>, <<-1, 1, 1>>,
       <<1, 0, 0>>,  <<1, 1, 0>>,  <<1, 0, 1>>,  <<1, 1, 1>> >>

InputCells == 1..(IF MaxCells < Len(Pattern) THEN MaxCells ELSE Len(Pattern))

GridSizes == (0 - NegGridSize)..MaxGridSize

SeedSizes == (0 - NegGridSize)..MaxSeedSize

\* speed is held in steps of the slider, 0.5 each: 1 is 0.5x, 10 is 5x
\* (GameControls.tsx lines 100-102)
Speeds == 1..10

\* the Set built by adding the keys of the cells of Pattern numbered in S, in order
RECURSIVE KeysOf(_, _)
KeysOf(S, i) ==
    IF i > Len(Pattern) THEN <<>>
    ELSE (IF i \in S THEN <<serializePosition(Pattern[i])>> ELSE <<>>) \o KeysOf(S, i + 1)

NoSeed == [gridSize |-> 0, totalCells |-> 0, i |-> 0, newActiveCells |-> 0]

NoOther == [state |-> <<>>, ret |-> 0]

\* the state useState is given (ConwayGame3D), with the gridSize drawn
Constructed(gridSize) ==
    [activeCells |-> 1, gridSize |-> gridSize, running |-> FALSE, speed |-> 2]

InitRest ==
    /\ ret = 0
    /\ other = NoOther
    /\ posArg = <<>>
    /\ count = 0
    /\ codecIn = <<>>
    /\ keys = <<>>
    /\ decoded = <<>>
    /\ seed = NoSeed
    /\ queue = <<>>
    /\ lastUpdateRef = 0
    /\ frameDelta = 0
    /\ timers = <<>>

\* a game state holding any set of cells of Pattern, about to be stepped
InitActive ==
    /\ \E S \in SUBSET InputCells : heap = <<KeysOf(S, 1)>>
    /\ \E n \in GridSizes : gameState = Constructed(n)
    /\ pc = "idle"
    /\ InitRest

\* the component as constructed, its mount effect about to seed it
InitMount ==
    /\ heap = << <<>> >>
    /\ \E n \in SeedSizes : gameState = Constructed(n)
    /\ pc = "mount"
    /\ InitRest

-----------------------------------------------------------------------------
(* The calls *)

\* ConwayGrid.step, line 20: const newActiveCells = computeNextGeneration(gameState)
Step ==
    /\ pc = "idle"
    /\ \E r \in {computeNextGeneration(heap, gameState)} :
          /\ heap' = r.heap
          /\ ret' = r.ret
    /\ pc' = "stepped"
    /\ UNCHANGED <<gameState, other, posArg, count, codecIn, keys, decoded, seed>>
    /\ UNCHANGED rendering

\* ConwayGrid.step, line 21: setGameState(prev => ({ ...prev, activeCells: newActiveCells }));
\* the Set published before is unreachable from then on and leaves the heap
Publish ==
    /\ pc = "stepped"
    /\ heap' = <<heap[ret]>>
    /\ gameState' = [gameState EXCEPT !.activeCells = 1]
    /\ ret' = 0
    /\ pc' = "idle"
    /\ UNCHANGED <<other, posArg, count, codecIn, keys, decoded, seed>>
    /\ UNCHANGED rendering

\* a loop that takes one turn too many
LoopContinuesInclusive(i, totalCells) == i <= totalCells

\* generateRandomCells, line 82: i < totalCells
LoopContinues(i, totalCells) == i < totalCells

\* generateRandomCells, lines 77-80, called as the mount effect calls it
GenerateBegin ==
    /\ pc = "mount"
    /\ heap' = NewSet(heap)
    /\ seed' = [gridSize |-> gameState.gridSize,
                totalCells |-> TotalCells(gameState.gridSize),
                i |-> 0,
                newActiveCells |-> Len(heap) + 1]
    /\ pc' = "seeding"
    /\ UNCHANGED <<gameState, ret, other, posArg, count, codecIn, keys, decoded>>
    /\ UNCHANGED rendering

\* generateRandomCells, lines 82-87: one turn of the loop
GenerateDraw ==
    /\ pc = "seeding"
    /\ LoopContinues(seed.i, seed.totalCells)
    /\ \E kx, ky, kz \in RandomNumerators :
          LET x == RandomCoord(kx, seed.gridSize)
              y == RandomCoord(ky, seed.gridSize)
              z == RandomCoord(kz, seed.gridSize)
          IN  heap' = HeapAdd(heap, seed.newActiveCells, serializePosition(<<x, y, z>>))
    /\ seed' = [seed EXCEPT !.i = @ + 1]
    /\ UNCHANGED <<gameState, pc, ret, other, posArg, count, codecIn, keys, decoded>>
    /\ UNCHANGED rendering

\* generateRandomCells, lines 82 and 89: the loop ends and the Set is returned
GenerateReturn ==
    /\ pc = "seeding"
    /\ ~LoopContinues(seed.i, seed.totalCells)
    /\ ret' = seed.newActiveCells
    /\ pc' = "seeded"
    /\ UNCHANGED <<heap, gameState, other, posArg, count, codecIn, keys, decoded, seed>>
    /\ UNCHANGED rendering

InitEngine == InitActive \/ InitMount

NextEngine == Step \/ Publish \/ GenerateBegin \/ GenerateDraw \/ GenerateReturn

SpecEngine == InitEngine /\ [][NextEngine]_vars

-----------------------------------------------------------------------------
(* computeNextGeneration called a second time, on a game state that holds the
   same cells in another Set object, filled in another order, and other values
   of running and speed *)

RECURSIVE Reverse(_)
Reverse(s) == IF s = <<>> THEN <<>> ELSE Append(Reverse(Tail(s)), Head(s))

Rotate(s) == IF s = <<>> THEN s ELSE Tail(s) \o <<Head(s)>>

Reordered(s, order) ==
    CASE order = "same" -> s
      [] order = "reversed" -> Reverse(s)
      [] order = "rotated" -> Rotate(s)

Variants ==
    { [order |-> "reversed", running |-> TRUE, speed |-> 1],
      [order |-> "rotated", running |-> FALSE, speed |-> 10],
      [order |-> "same", running |-> TRUE, speed |-> 2],
      [order |-> "reversed", running |-> FALSE, speed |-> 3] }

StepAgain ==
    /\ pc = "stepped"
    /\ \E v \in Variants :
          LET state2 == [activeCells |-> Len(heap) + 1,
                         gridSize |-> gameState.gridSize,
                         running |-> v.running,
                         speed |-> v.speed]
              h == Append(heap, Reordered(heap[gameState.activeCells], v.order))
          IN  \E r \in {computeNextGeneration(h, state2)} :
                 /\ heap' = r.heap
                 /\ other' = [state |-> state2, ret |-> r.ret]
    /\ pc' = "stepped2"
    /\ UNCHANGED <<gameState, ret, posArg, count, codecIn, keys, decoded, seed>>
    /\ UNCHANGED rendering

NextDeterminism == Step \/ StepAgain

SpecDeterminism == InitActive /\ [][NextDeterminism]_vars

-----------------------------------------------------------------------------
(* computeNextGeneration called on cells around (5,5,5), on the grid the
   component is constructed with and on the smallest grid of the selector *)

\* ConwayGame3D, line 15: gridSize: 10
DefaultGridSize == 10

\* GameControls, the least gridSize the selector offers
LeastGridSize == 5

ExamplePattern ==
    << <<5, 5, 5>>, <<4, 5, 5>>, <<6, 5, 5>>, <<5, 4, 5>>, <<5, 6, 5>>,
       <<5, 5, 4>>, <<5, 5, 6>> >>

ExampleCells == 1..(IF MaxExampleCells < Len(ExamplePattern) THEN MaxExampleCells
                    ELSE Len(ExamplePattern))

RECURSIVE ExampleKeysOf(_, _)
ExampleKeysOf(S, i) ==
    IF i > Len(ExamplePattern) THEN <<>>
    ELSE (IF i \in S THEN <<serializePosition(ExamplePattern[i])>> ELSE <<>>)
         \o ExampleKeysOf(S, i + 1)

InitExamples ==
    /\ \E S \in SUBSET ExampleCells : heap = <<ExampleKeysOf(S, 1)>>
    /\ \E n \in {LeastGridSize, DefaultGridSize} : gameState = Constructed(n)
    /\ pc = "idle"
    /\ InitRest

\* one call on each input
NextExamples == Step

SpecExamples == InitExamples /\ [][NextExamples]_vars

-----------------------------------------------------------------------------
(* countNeighbors called on a position of Pattern *)

Count ==
    /\ pc = "idle"
    /\ \E i \in 1..Len(Pattern) :
          /\ posArg' = Pattern[i]
          /\ count' = countNeighbors(heap, Pattern[i], gameState.activeCells)
    /\ pc' = "counted"
    /\ UNCHANGED <<heap, gameState, ret, other, codecIn, keys, decoded, seed>>
    /\ UNCHANGED rendering

\* the value is consumed and the next call may be made
CountReturn ==
    /\ pc = "counted"
    /\ pc' = "idle"
    /\ posArg' = <<>>
    /\ count' = 0
    /\ UNCHANGED <<heap, gameState, ret, other, codecIn, keys, decoded, seed>>
    /\ UNCHANGED rendering

NextCount == Count \/ CountReturn

SpecCount == InitActive /\ [][NextCount]_vars

-----------------------------------------------------------------------------
(* The codec called on two positions *)

CodecCoords == {0 - CodecBig, 0 - 1, 0, 1, CodecBig}

InitCodec ==
    /\ heap = << <<>> >>
    /\ gameState = Constructed(10)
    /\ pc = "codec"
    /\ ret = 0
    /\ other = NoOther
    /\ posArg = <<>>
    /\ count = 0
    /\ \E x1, y1, z1, x2, y2, z2 \in CodecCoords : codecIn = << <<x1, y1, z1>>, <<x2, y2, z2>> >>
    /\ keys = <<>>
    /\ decoded = <<>>
    /\ seed = NoSeed
    /\ queue = <<>>
    /\ lastUpdateRef = 0
    /\ frameDelta = 0
    /\ timers = <<>>

\* conway.ts line 15, on the next position
Serialize ==
    /\ Len(keys) < Len(codecIn)
    /\ keys' = Append(keys, serializePosition(codecIn[Len(keys) + 1]))
    /\ UNCHANGED <<heap, gameState, pc, ret, other, posArg, count, codecIn, decoded, seed>>
    /\ UNCHANGED rendering

\* conway.ts line 16, on the next key
Deserialize ==
    /\ Len(decoded) < Len(keys)
    /\ decoded' = Append(decoded, deserializePosition(keys[Len(decoded) + 1]))
    /\ UNCHANGED <<heap, gameState, pc, ret, other, posArg, count, codecIn, keys, seed>>
    /\ UNCHANGED rendering

NextCodec == Serialize \/ Deserialize

SpecCodec == InitCodec /\ [][NextCodec]_vars

-----------------------------------------------------------------------------
(* The application: ConwayGame3D (part_003 lines 12-38) with ConwayGrid.tsx
   and GameControls.tsx.  gameState is the state of the last render, which the
   callbacks of that render close over; queue holds the updaters that were
   passed to setGameState since, and a render applies them in order.  heap[1]
   is the Set of the last render, and the Sets of the updaters follow it. *)

\* GameControls lines 130-134: 5, 10, 15, 20, 25
GridSizeOptions == {LeastGridSize * k : k \in 1..MaxGridOptions}

\* GameControls lines 100-102, in halves: the slider at 1x and at 5x
SpeedChoices == {2, 10}

FrameDeltas == {1, MaxDelta}

\* the numerators of successive values of Math.random(), three to a cell; a
\* stream starts again when it ends
StreamA == << <<4, 5, 5>>, <<4, 6, 5>>, <<5, 5, 5>>, <<5, 6, 5>>, <<6, 6, 5>> >>

StreamB == << <<4, 6, 6>>, <<4, 8, 6>>, <<6, 6, 6>>, <<6, 8, 6>>, <<8, 8, 6>> >>

RandomStreams == {StreamA, StreamB}

\* conwayLogic.ts lines 82-87: the turns lo..hi of the loop, each taken if the
\* test of line 82 holds
RECURSIVE DrawLoop(_, _, _, _, _, _, _)
DrawLoop(h, newActiveCells, gridSize, totalCells, random, lo, hi) ==
    IF lo > hi THEN h
    ELSE IF lo = hi
    THEN IF LoopContinues(lo, totalCells)
         THEN LET k == random[(lo % Len(random)) + 1]
                  x == RandomCoord(k[1], gridSize)
                  y == RandomCoord(k[2], gridSize)
                  z == RandomCoord(k[3], gridSize)
              IN  HeapAdd(h, newActiveCells, serializePosition(<<x, y, z>>))
         ELSE h
    ELSE LET mid == (lo + hi) \div 2
         IN  Then(DrawLoop(h, newActiveCells, gridSize, totalCells, random, lo, mid),
                  LAMBDA x : DrawLoop(x, newActiveCells, gridSize, totalCells, random,
                                      mid + 1, hi))

\* conwayLogic.ts lines 76-90, Math.random() giving the values of random
generateRandomCells(h, gridSize, random) ==
    LET h1 == NewSet(h)
        newActiveCells == Len(h1)
        totalCells == TotalCells(gridSize)
        h2 == DrawLoop(h1, newActiveCells, gridSize, totalCells, random,
                       0, IF totalCells < 0 THEN 0 ELSE totalCells)
    IN  [heap |-> h2, ret |-> newActiveCells]

\* generateRandomCells reads nothing of the heap: the contents of the Set it
\* returns, for each gridSize the application has and each stream
SeededCells ==
    {[gridSize |-> n, random |-> r,
      cells |-> generateRandomCells(<<>>, n, r).heap[1]] :
        n \in GridSizeOptions \cup {DefaultGridSize}, r \in RandomStreams}

SeedOf(gridSize, random) ==
    (CHOOSE e \in SeededCells : e.gridSize = gridSize /\ e.random = random).cells

\* prev => ({ ...prev, activeCells: newActiveCells })
SetActiveCells(by, newActiveCells) ==
    [kind |-> "activeCells", by |-> by, activeCells |-> newActiveCells,
     gridSize |-> 0, speed |-> 0]

\* a reset that passes the new cells and leaves gridSize and running alone
SetSeededCellsOnly(newActiveCells, gridSize) ==
    [kind |-> "activeCells", by |-> "initializeRandom", activeCells |-> newActiveCells,
     gridSize |-> gridSize, speed |-> 0]

\* GameControls lines 19-24
SetSeeded(newActiveCells, gridSize) ==
    [kind |-> "seeded", by |-> "initializeRandom", activeCells |-> newActiveCells,
     gridSize |-> gridSize, speed |-> 0]

\* GameControls line 46
SetRunning ==
    [kind |-> "running", by |-> "toggle", activeCells |-> 0, gridSize |-> 0, speed |-> 0]

\* GameControls line 104
SetSpeed(speed) ==
    [kind |-> "speed", by |-> "slider", activeCells |-> 0, gridSize |-> 0, speed |-> speed]

\* a toggle that starts the game whether or not it runs
ApplyToggleStarts(prev, u) ==
    CASE u.kind = "activeCells" -> [prev EXCEPT !.activeCells = u.activeCells]
      [] u.kind = "seeded" -> [prev EXCEPT !.activeCells = u.activeCells,
                                           !.gridSize = u.gridSize,
                                           !.running = FALSE]
      [] u.kind = "running" -> [prev EXCEPT !.running = TRUE]
      [] u.kind = "speed" -> [prev EXCEPT !.speed = u.speed]

\* the updater u applied to the state prev
Apply(prev, u) ==
    CASE u.kind = "activeCells" -> [prev EXCEPT !.activeCells = u.activeCells]
      [] u.kind = "seeded" -> [prev EXCEPT !.activeCells = u.activeCells,
                                           !.gridSize = u.gridSize,
                                           !.running = FALSE]
      [] u.kind = "running" -> [prev EXCEPT !.running = ~prev.running]
      [] u.kind = "speed" -> [prev EXCEPT !.speed = u.speed]

RECURSIVE ApplyAll(_, _)
ApplyAll(prev, q) ==
    IF q = <<>> THEN prev ELSE ApplyAll(Apply(prev, Head(q)), Tail(q))

\* the mount effect has run and the queue of updaters has room: an event
\* handler or a frame can pass its updater
CanEnqueue == pc = "mounted" /\ Len(queue) < MaxQueue

\* setGameState(u)
Enqueue(u) == queue' = Append(queue, u)

\* the component renders: the updaters are applied, and the Sets no state refers
\* to any more leave the heap
Render ==
    /\ queue # <<>>
    /\ LET next == ApplyAll(gameState, queue)
       IN  /\ heap' = <<heap[next.activeCells]>>
           /\ gameState' = [next EXCEPT !.activeCells = 1]
    /\ queue' = <<>>
    /\ UNCHANGED <<pc, ret, other, posArg, count, codecIn, keys, decoded, seed,
                   lastUpdateRef, frameDelta, timers>>

\* ConwayGame3D lines 21-24: the mount effect
Mount ==
    /\ pc = "mount"
    /\ \E random \in RandomStreams :
          heap' = Append(heap, SeedOf(gameState.gridSize, random))
    /\ Enqueue(SetActiveCells("mount", Len(heap) + 1))
    /\ pc' = "mounted"
    /\ UNCHANGED <<gameState, ret, other, posArg, count, codecIn, keys, decoded, seed,
                   lastUpdateRef, frameDelta, timers>>

\* a test that lets the step run when exactly 1 / speed has accumulated
ExceedsIntervalInclusive(lastUpdate, speed) == lastUpdate * speed >= 2 * TicksPerSecond

\* ConwayGrid line 28: lastUpdateRef.current > (1.0 / gameState.speed), the
\* accumulator in ticks and the speed in halves
ExceedsInterval(lastUpdate, speed) == lastUpdate * speed > 2 * TicksPerSecond

\* ConwayGrid lines 19-22, called by the callback of useFrame
FrameStep ==
    /\ CanEnqueue
    /\ \E r \in {computeNextGeneration(heap, gameState)} :
          /\ heap' = r.heap
          /\ Enqueue(SetActiveCells("frame", r.ret))
    /\ lastUpdateRef' = 0

\* a callback that does not look at running
FrameWhilePaused ==
    \E delta \in FrameDeltas :
        /\ IF ExceedsInterval(lastUpdateRef + delta, gameState.speed)
           THEN FrameStep
           ELSE /\ lastUpdateRef' = lastUpdateRef + delta
                /\ UNCHANGED <<heap, queue>>
        /\ frameDelta' = delta
        /\ UNCHANGED <<gameState, pc, ret, other, posArg, count, codecIn, keys,
                       decoded, seed, timers>>

\* ConwayGrid lines 25-32: the callback of useFrame, on a frame of delta ticks
Frame ==
    \E delta \in FrameDeltas :
        IF pc = "mounted" /\ gameState.running
        THEN /\ IF ExceedsInterval(lastUpdateRef + delta, gameState.speed)
                THEN FrameStep
                ELSE /\ lastUpdateRef' = lastUpdateRef + delta
                     /\ UNCHANGED <<heap, queue>>
             /\ frameDelta' = delta
             /\ UNCHANGED <<gameState, pc, ret, other, posArg, count, codecIn, keys,
                            decoded, seed, timers>>
        ELSE UNCHANGED vars

\* a Step button that does not look at running
handleStepWhileRunning ==
    /\ CanEnqueue
    /\ \E r \in {computeNextGeneration(heap, gameState)} :
          /\ heap' = r.heap
          /\ Enqueue(SetActiveCells("manual", r.ret))
    /\ UNCHANGED <<gameState, pc, ret, other, posArg, count, codecIn, keys,
                   decoded, seed, lastUpdateRef, frameDelta, timers>>

\* GameControls lines 28-33: the Step button
handleStep ==
    IF pc = "mounted" /\ ~gameState.running
    THEN /\ CanEnqueue
         /\ \E r \in {computeNextGeneration(heap, gameState)} :
               /\ heap' = r.heap
               /\ Enqueue(SetActiveCells("manual", r.ret))
         /\ UNCHANGED <<gameState, pc, ret, other, posArg, count, codecIn, keys,
                        decoded, seed, lastUpdateRef, frameDelta, timers>>
    ELSE UNCHANGED vars

\* GameControls line 46: the Play/Pause button
ToggleRunning ==
    /\ CanEnqueue
    /\ Enqueue(SetRunning)
    /\ UNCHANGED <<heap, gameState, pc, ret, other, posArg, count, codecIn, keys,
                   decoded, seed, lastUpdateRef, frameDelta, timers>>

\* GameControls line 104: the speed slider moved to another value
ChangeSpeed ==
    /\ CanEnqueue
    /\ \E speed \in SpeedChoices \ {gameState.speed} : Enqueue(SetSpeed(speed))
    /\ UNCHANGED <<heap, gameState, pc, ret, other, posArg, count, codecIn, keys,
                   decoded, seed, lastUpdateRef, frameDelta, timers>>

\* GameControls lines 13-25, gridSize being what line 15 chose
initializeRandom(gridSize) ==
    /\ CanEnqueue
    /\ \E random \in RandomStreams : heap' = Append(heap, SeedOf(gridSize, random))
    /\ Enqueue(SetSeeded(Len(heap) + 1, gridSize))
    /\ UNCHANGED <<gameState, pc, ret, other, posArg, count, codecIn, keys, decoded,
                   seed, lastUpdateRef, frameDelta, timers>>

\* GameControls line 80: the Random button
RandomButton == initializeRandom(gameState.gridSize)

\* GameControls lines 124-127: another size is selected
SelectGridSize ==
    \E newSize \in GridSizeOptions \ {gameState.gridSize} : initializeRandom(newSize)

Init ==
    /\ heap = << <<>> >>
    /\ gameState = Constructed(DefaultGridSize)
    /\ pc = "mount"
    /\ InitRest

Next ==
    \/ Mount
    \/ Render
    \/ Frame
    \/ handleStep
    \/ ToggleRunning
    \/ ChangeSpeed
    \/ RandomButton
    \/ SelectGridSize

Spec == Init /\ [][Next]_vars

-----------------------------------------------------------------------------
(* The single-file application: src/app/components/ConwayGame3D.tsx, which
   holds its own codec and two more copies of the rules, the step of its
   ConwayGrid (lines 57-101) and the updater of its handleStep (lines
   191-254) *)

\* ConwayGame3D.tsx line 20: `${pos[0]},${pos[1]},${pos[2]}`
serializePositionInline(pos) ==
    NumberToString(pos[1]) \o <<",">> \o NumberToString(pos[2])
        \o <<",">> \o NumberToString(pos[3])

\* ConwayGame3D.tsx line 21: key.split(',').map(Number)
deserializePositionInline(key) == MapNumber(Split(key))

\* lines 32-54: the countNeighbors of ConwayGrid, which reads the activeCells of
\* the gameState it closes over
stepCountNeighbors(h, pos, gs) ==
    Cardinality({i \in 1..Len(Deltas) :
                    SetHas(h[gs.activeCells], serializePositionInline(Shift(pos, Deltas[i])))})

\* line 65: activeCells.forEach(cell => cellsToCheck.add(cell))
RECURSIVE stepCopyLoop(_, _, _, _, _)
stepCopyLoop(h, activeCells, cellsToCheck, lo, hi) ==
    IF lo > hi THEN h
    ELSE IF lo = hi THEN HeapAdd(h, cellsToCheck, h[activeCells][lo])
    ELSE LET mid == (lo + hi) \div 2
         IN  Then(stepCopyLoop(h, activeCells, cellsToCheck, lo, mid),
                  LAMBDA x : stepCopyLoop(x, activeCells, cellsToCheck, mid + 1, hi))

\* lines 71-83: the three nested loops for one active cell; line 78 skips the
\* neighbours outside the grid
RECURSIVE stepDeltaLoop(_, _, _, _, _, _)
stepDeltaLoop(h, cellsToCheck, pos, gridSize, lo, hi) ==
    IF lo > hi THEN h
    ELSE IF lo = hi
    THEN LET neighborPos == Shift(pos, Deltas[lo])
         IN  IF \E a \in 1..Len(neighborPos) :
                    neighborPos[a] < 0 \/ neighborPos[a] >= gridSize
             THEN h
             ELSE HeapAdd(h, cellsToCheck, serializePositionInline(neighborPos))
    ELSE LET mid == (lo + hi) \div 2
         IN  Then(stepDeltaLoop(h, cellsToCheck, pos, gridSize, lo, mid),
                  LAMBDA x : stepDeltaLoop(x, cellsToCheck, pos, gridSize, mid + 1, hi))

\* lines 68-84: activeCells.forEach(cell => ...)
RECURSIVE stepNeighborLoop(_, _, _, _, _, _)
stepNeighborLoop(h, activeCells, cellsToCheck, gridSize, lo, hi) ==
    IF lo > hi THEN h
    ELSE IF lo = hi
    THEN stepDeltaLoop(h, cellsToCheck, deserializePositionInline(h[activeCells][lo]),
                       gridSize, 1, Len(Deltas))
    ELSE LET mid == (lo + hi) \div 2
         IN  Then(stepNeighborLoop(h, activeCells, cellsToCheck, gridSize, lo, mid),
                  LAMBDA x : stepNeighborLoop(x, activeCells, cellsToCheck, gridSize,
                                              mid + 1, hi))

\* lines 87-98: cellsToCheck.forEach(cellKey => ...)
RECURSIVE stepRuleLoop(_, _, _, _, _, _, _)
stepRuleLoop(h, gs, activeCells, cellsToCheck, newActiveCells, lo, hi) ==
    IF lo > hi THEN h
    ELSE IF lo = hi
    THEN LET cellKey == h[cellsToCheck][lo]
             pos == deserializePositionInline(cellKey)
             isAlive == SetHas(h[activeCells], cellKey)
             neighbors == stepCountNeighbors(h, pos, gs)
         IN  IF isAlive /\ (neighbors >= 4 /\ neighbors <= 6)
             THEN HeapAdd(h, newActiveCells, cellKey)
             ELSE IF ~isAlive /\ (neighbors >= 5 /\ neighbors <= 7)
             THEN HeapAdd(h, newActiveCells, cellKey)
             ELSE h
    ELSE LET mid == (lo + hi) \div 2
         IN  Then(stepRuleLoop(h, gs, activeCells, cellsToCheck, newActiveCells, lo, mid),
                  LAMBDA x : stepRuleLoop(x, gs, activeCells, cellsToCheck, newActiveCells,
                                          mid + 1, hi))

\* lines 57-99: the step of ConwayGrid up to its call of setGameState; the heap
\* and the reference of newActiveCells, the local cellsToCheck dropped
stepInline(h, gs) ==
    LET h1 == NewSet(h)
        newActiveCells == Len(h1)
        gridSize == gs.gridSize
        activeCells == gs.activeCells
        h2 == NewSet(h1)
        cellsToCheck == Len(h2)
        h3 == stepCopyLoop(h2, activeCells, cellsToCheck, 1, Len(h2[activeCells]))
        h4 == stepNeighborLoop(h3, activeCells, cellsToCheck, gridSize,
                               1, Len(h3[activeCells]))
        h5 == stepRuleLoop(h4, gs, activeCells, cellsToCheck, newActiveCells,
                           1, Len(h4[cellsToCheck]))
    IN  [heap |-> SubSeq(h5, 1, Len(h5) - 1), ret |-> newActiveCells]

\* a bounds test that lets the negative axis values through
updaterOutsideGridNoLowerTest(neighborPos, prev) ==
    \E a \in 1..Len(neighborPos) : neighborPos[a] >= prev.gridSize

\* line 208: neighborPos.some(coord => coord < 0 || coord >= prev.gridSize)
updaterOutsideGrid(neighborPos, prev) ==
    \E a \in 1..Len(neighborPos) : neighborPos[a] < 0 \/ neighborPos[a] >= prev.gridSize

\* lines 201-213: the three nested loops for one cell of prev.activeCells
RECURSIVE updaterDeltaLoop(_, _, _, _, _, _)
updaterDeltaLoop(h, prev, cellsToCheck, pos, lo, hi) ==
    IF lo > hi THEN h
    ELSE IF lo = hi
    THEN LET neighborPos == Shift(pos, Deltas[lo])
         IN  IF updaterOutsideGrid(neighborPos, prev) THEN h
             ELSE HeapAdd(h, cellsToCheck, serializePositionInline(neighborPos))
    ELSE LET mid == (lo + hi) \div 2
         IN  Then(updaterDeltaLoop(h, prev, cellsToCheck, pos, lo, mid),
                  LAMBDA x : updaterDeltaLoop(x, prev, cellsToCheck, pos, mid + 1, hi))

\* lines 196-214: prev.activeCells.forEach(cell => ...), which adds the cell and
\* then its neighbours, cell after cell
RECURSIVE updaterCheckLoop(_, _, _, _, _)
updaterCheckLoop(h, prev, cellsToCheck, lo, hi) ==
    IF lo > hi THEN h
    ELSE IF lo = hi
    THEN LET cell == h[prev.activeCells][lo]
         IN  updaterDeltaLoop(HeapAdd(h, cellsToCheck, cell), prev, cellsToCheck,
                              deserializePositionInline(cell), 1, Len(Deltas))
    ELSE LET mid == (lo + hi) \div 2
         IN  Then(updaterCheckLoop(h, prev, cellsToCheck, lo, mid),
                  LAMBDA x : updaterCheckLoop(x, prev, cellsToCheck, mid + 1, hi))

\* lines 217-237: the countNeighbors the updater defines, on prev.activeCells
updaterCountNeighbors(h, pos, prev) ==
    Cardinality({i \in 1..Len(Deltas) :
                    SetHas(h[prev.activeCells],
                           serializePositionInline(Shift(pos, Deltas[i])))})

\* lines 240-251: cellsToCheck.forEach(cellKey => ...)
RECURSIVE updaterRuleLoop(_, _, _, _, _, _)
updaterRuleLoop(h, prev, cellsToCheck, newActiveCells, lo, hi) ==
    IF lo > hi THEN h
    ELSE IF lo = hi
    THEN LET cellKey == h[cellsToCheck][lo]
             pos == deserializePositionInline(cellKey)
             isAlive == SetHas(h[prev.activeCells], cellKey)
             neighbors == updaterCountNeighbors(h, pos, prev)
         IN  IF isAlive /\ (neighbors >= 4 /\ neighbors <= 6)
             THEN HeapAdd(h, newActiveCells, cellKey)
             ELSE IF ~isAlive /\ (neighbors >= 5 /\ neighbors <= 7)
             THEN HeapAdd(h, newActiveCells, cellKey)
             ELSE h
    ELSE LET mid == (lo + hi) \div 2
         IN  Then(updaterRuleLoop(h, prev, cellsToCheck, newActiveCells, lo, mid),
                  LAMBDA x : updaterRuleLoop(x, prev, cellsToCheck, newActiveCells,
                                             mid + 1, hi))

\* lines 191-254: the updater handleStep passes, applied to prev: cellsToCheck is
\* created first and newActiveCells second; the heap without cellsToCheck and
\* the reference of newActiveCells in it
handleStepUpdater(h, prev) ==
    LET h1 == NewSet(h)
        cellsToCheck == Len(h1)
        h2 == NewSet(h1)
        newActiveCells == Len(h2)
        h3 == updaterCheckLoop(h2, prev, cellsToCheck, 1, Len(h2[prev.activeCells]))
        h4 == updaterRuleLoop(h3, prev, cellsToCheck, newActiveCells,
                              1, Len(h3[cellsToCheck]))
    IN  [heap |-> SubSeq(h4, 1, cellsToCheck - 1) \o <<h4[newActiveCells]>>,
         ret |-> cellsToCheck]

\* the step of ConwayGrid called on the game state computeNextGeneration was
\* called on
StepInline ==
    /\ pc = "stepped"
    /\ \E r \in {stepInline(heap, gameState)} :
          /\ heap' = r.heap
          /\ other' = [state |-> gameState, ret |-> r.ret]
    /\ pc' = "inlined"
    /\ UNCHANGED <<gameState, ret, posArg, count, codecIn, keys, decoded, seed>>
    /\ UNCHANGED rendering

\* lines 189-256: handleStep, its updater applied to that game state
HandleStepInline ==
    /\ pc = "stepped"
    /\ IF ~gameState.running
       THEN \E r \in {handleStepUpdater(heap, gameState)} :
               /\ heap' = r.heap
               /\ other' = [state |-> gameState, ret |-> r.ret]
               /\ pc' = "updated"
       ELSE UNCHANGED <<heap, other, pc>>
    /\ UNCHANGED <<gameState, ret, posArg, count, codecIn, keys, decoded, seed>>
    /\ UNCHANGED rendering

NextEquivalence == Step \/ StepInline \/ HandleStepInline

SpecEquivalence == InitActive /\ [][NextEquivalence]_vars

-----------------------------------------------------------------------------
(* The candidates of a step *)

\* conwayLogic.ts lines 31-56: the contents of the Set cellsToCheck when the
\* loop of line 59 starts, computeNextGeneration being called on gs
cellsToCheckOf(h, gs) ==
    LET h1 == NewSet(h)
        h2 == NewSet(h1)
        cellsToCheck == Len(h2)
        h3 == CopyLoop(h2, gs.activeCells, cellsToCheck, 1, Len(h2[gs.activeCells]))
        h4 == NeighborLoop(h3, gs.activeCells, cellsToCheck, gs.gridSize,
                           1, Len(h3[gs.activeCells]))
    IN  h4[cellsToCheck]

-----------------------------------------------------------------------------
(* The single-file application running: ConwayGame3D.tsx, whose
   initializeRandom (lines 150-181) clears the grid and seeds it from a timer.
   As above, gameState is the state of the last render and queue the updaters
   passed to setGameState since; an updater that computes from prev is kept as
   such and computed when the render applies it. *)

\* lines 169-174: the turns lo..hi of the loop, each taken if the test of line
\* 169 holds
RECURSIVE populateLoop(_, _, _, _, _, _, _)
populateLoop(h, newActiveCells, gridSize, totalCells, random, lo, hi) ==
    IF lo > hi THEN h
    ELSE IF lo = hi
    THEN IF lo < totalCells
         THEN LET k == random[(lo % Len(random)) + 1]
                  x == (k[1] * gridSize) \div RandDenom
                  y == (k[2] * gridSize) \div RandDenom
                  z == (k[3] * gridSize) \div RandDenom
              IN  HeapAdd(h, newActiveCells, serializePositionInline(<<x, y, z>>))
         ELSE h
    ELSE LET mid == (lo + hi) \div 2
         IN  Then(populateLoop(h, newActiveCells, gridSize, totalCells, random, lo, mid),
                  LAMBDA x : populateLoop(x, newActiveCells, gridSize, totalCells, random,
                                          mid + 1, hi))

\* lines 164-174: the Set the callback of the timer fills, gridSize being the
\* constant of line 152 it closes over and Math.random() giving the values of
\* random
populate(h, gridSize, random) ==
    LET h1 == NewSet(h)
        newActiveCells == Len(h1)
        totalCells == (gridSize * gridSize * gridSize) \div 10
        h2 == populateLoop(h1, newActiveCells, gridSize, totalCells, random,
                           0, IF totalCells < 0 THEN 0 ELSE totalCells)
    IN  [heap |-> h2, ret |-> newActiveCells]

\* the values Math.random() gives a callback of a timer
TimerStreams == {StreamA}

\* the callback reads nothing of the heap: the contents of the Set it fills,
\* for each gridSize the application has and each stream
PopulatedCells ==
    {[gridSize |-> n, random |-> r, cells |-> populate(<<>>, n, r).heap[1]] :
        n \in GridSizeOptions \cup {DefaultGridSize}, r \in TimerStreams}

PopulateOf(gridSize, random) ==
    (CHOOSE e \in PopulatedCells : e.gridSize = gridSize /\ e.random = random).cells

\* lines 155-160: prev => ({ ...prev, activeCells: new Set(), gridSize, running: false });
\* newActiveCells is the reference of the empty Set
SetCleared(newActiveCells, gridSize) ==
    [kind |-> "seeded", by |-> "clear", activeCells |-> newActiveCells,
     gridSize |-> gridSize, speed |-> 0]

\* lines 176-179: prev => ({ ...prev, activeCells: newActiveCells })
SetPopulated(newActiveCells) ==
    [kind |-> "activeCells", by |-> "timer", activeCells |-> newActiveCells,
     gridSize |-> 0, speed |-> 0]

\* lines 191-254: the updater of handleStep
SetStepped ==
    [kind |-> "step", by |-> "manual", activeCells |-> 0, gridSize |-> 0, speed |-> 0]

\* the updater u applied to the state hs.state on the heap hs.heap
ApplyOnHeap(hs, u) ==
    IF u.kind = "step"
    THEN LET r == handleStepUpdater(hs.heap, hs.state)
         IN  [heap |-> r.heap, state |-> [hs.state EXCEPT !.activeCells = r.ret]]
    ELSE [heap |-> hs.heap, state |-> Apply(hs.state, u)]

RECURSIVE ApplyAllOnHeap(_, _)
ApplyAllOnHeap(hs, q) ==
    IF q = <<>> THEN hs ELSE ApplyAllOnHeap(ApplyOnHeap(hs, Head(q)), Tail(q))

\* the component renders: the updaters are applied, and the Sets no state refers
\* to any more leave the heap
RenderInline ==
    /\ queue # <<>>
    /\ \E next \in {ApplyAllOnHeap([heap |-> heap, state |-> gameState], queue)} :
          /\ heap' = <<next.heap[next.state.activeCells]>>
          /\ gameState' = [next.state EXCEPT !.activeCells = 1]
    /\ queue' = <<>>
    /\ UNCHANGED <<pc, ret, other, posArg, count, codecIn, keys, decoded, seed,
                   lastUpdateRef, frameDelta, timers>>

\* lines 152-180, gridSize being what line 152 chose: the clear is passed to
\* setGameState and the timer is set
initializeRandomDelayed(gridSize) ==
    /\ Len(queue) < MaxQueue
    /\ Len(timers) < MaxTimers
    /\ heap' = Append(heap, <<>>)
    /\ Enqueue(SetCleared(Len(heap) + 1, gridSize))
    /\ timers' = Append(timers, [gridSize |-> gridSize])
    /\ UNCHANGED <<gameState, ret, other, posArg, count, codecIn, keys, decoded,
                   seed, lastUpdateRef, frameDelta>>

\* lines 184-186: the mount effect
MountInline ==
    /\ pc = "mount"
    /\ initializeRandomDelayed(gameState.gridSize)
    /\ pc' = "mounted"

\* the timer that fires next: timers of equal delay fire in the order they were set
FiredTimer(pending) == 1

\* lines 163-180: the callback of a timer
TimerFires ==
    /\ timers # <<>>
    /\ CanEnqueue
    /\ LET t == FiredTimer(timers)
       IN  /\ \E random \in TimerStreams :
                 heap' = Append(heap, PopulateOf(timers[t].gridSize, random))
           /\ timers' = SubSeq(timers, 1, t - 1) \o SubSeq(timers, t + 1, Len(timers))
    /\ Enqueue(SetPopulated(Len(heap) + 1))
    /\ UNCHANGED <<gameState, pc, ret, other, posArg, count, codecIn, keys, decoded,
                   seed, lastUpdateRef, frameDelta>>

\* lines 57-101, called by the callback of useFrame
FrameStepInline ==
    /\ CanEnqueue
    /\ \E r \in {stepInline(heap, gameState)} :
          /\ heap' = r.heap
          /\ Enqueue(SetActiveCells("frame", r.ret))
    /\ lastUpdateRef' = 0

\* lines 104-111: the callback of useFrame, on a frame of delta ticks
FrameInline ==
    \E delta \in FrameDeltas :
        IF pc = "mounted" /\ gameState.running
        THEN /\ IF (lastUpdateRef + delta) * gameState.speed > 2 * TicksPerSecond
                THEN FrameStepInline
                ELSE /\ lastUpdateRef' = lastUpdateRef + delta
                     /\ UNCHANGED <<heap, queue>>
             /\ frameDelta' = delta
             /\ UNCHANGED <<gameState, pc, ret, other, posArg, count, codecIn, keys,
                            decoded, seed, timers>>
        ELSE UNCHANGED vars

\* lines 189-256: the Step button
HandleStepButton ==
    IF pc = "mounted" /\ ~gameState.running
    THEN /\ CanEnqueue
         /\ Enqueue(SetStepped)
         /\ UNCHANGED <<heap, gameState, pc, ret, other, posArg, count, codecIn, keys,
                        decoded, seed, lastUpdateRef, frameDelta, timers>>
    ELSE UNCHANGED vars

\* line 275: the Play/Pause button
ToggleRunningInline ==
    /\ CanEnqueue
    /\ Enqueue(SetRunning)
    /\ UNCHANGED <<heap, gameState, pc, ret, other, posArg, count, codecIn, keys,
                   decoded, seed, lastUpdateRef, frameDelta, timers>>

\* lines 324-330: the speed slider moved to another value
ChangeSpeedInline ==
    /\ CanEnqueue
    /\ \E speed \in SpeedChoices \ {gameState.speed} : Enqueue(SetSpeed(speed))
    /\ UNCHANGED <<heap, gameState, pc, ret, other, posArg, count, codecIn, keys,
                   decoded, seed, lastUpdateRef, frameDelta, timers>>

\* line 308: the Random button
RandomButtonInline ==
    /\ pc = "mounted"
    /\ initializeRandomDelayed(gameState.gridSize)
    /\ UNCHANGED pc

\* lines 343-352: the grid slider moved to another size
SlideGridSize ==
    /\ pc = "mounted"
    /\ \E newSize \in GridSizeOptions \ {gameState.gridSize} :
          initializeRandomDelayed(newSize)
    /\ UNCHANGED pc

NextDelayed ==
    \/ MountInline
    \/ RenderInline
    \/ TimerFires
    \/ FrameInline
    \/ HandleStepButton
    \/ ToggleRunningInline
    \/ ChangeSpeedInline
    \/ RandomButtonInline
    \/ SlideGridSize

SpecDelayed == Init /\ [][NextDelayed]_vars

-----------------------------------------------------------------------------
(* What the claims speak of: coordinates, read off the keys the Sets hold *)

Range(seq) == {seq[i] : i \in 1..Len(seq)}

CoordsOf(set) == {deserializePosition(k) : k \in Range(set)}

\* the cells of the game state stepped, and the cells computeNextGeneration returned
ActiveCoords == CoordsOf(heap[gameState.activeCells])
ResultCoords == CoordsOf(heap[ret])

Abs(n) == IF n < 0 THEN 0 - n ELSE n

\* a is one of the 26 neighbours of c
Adjacent(a, c) ==
    /\ a # c
    /\ \A i \in 1..3 : Abs(a[i] - c[i]) <= 1

NeighbourCount(c, cells) == Cardinality({a \in cells : Adjacent(a, c)})

InsideGrid(c, n) == \A i \in 1..3 : 0 <= c[i] /\ c[i] < n

\* every coordinate with a neighbour in cells, and the cells themselves
Surroundings(cells) ==
    cells \cup {<<a[1] + dx, a[2] + dy, a[3] + dz>> :
                    a \in cells, dx \in {-1, 0, 1}, dy \in {-1, 0, 1}, dz \in {-1, 0, 1}}

\* C1. Survival rule: after a step, a cell of the active set is in the result
\* if and only if between 4 and 6 of its 26 neighbours are in the active set,
\* whether or not the cell lies inside the grid.
SurvivalRule ==
    pc = "stepped" =>
        \A c \in ActiveCoords :
            c \in ResultCoords <=> NeighbourCount(c, ActiveCoords) \in 4..6

\* a step after which a cell outside the grid and a cell inside it survive, and
\* a cell with 7 active neighbours dies
SurvivalRuleWitness ==
    /\ pc = "stepped"
    /\ \E c \in ActiveCoords :
          c \in ResultCoords /\ ~InsideGrid(c, gameState.gridSize)
    /\ \E c \in ActiveCoords :
          c \in ResultCoords /\ InsideGrid(c, gameState.gridSize)
    /\ \E c \in ActiveCoords :
          c \notin ResultCoords /\ NeighbourCount(c, ActiveCoords) = 7

\* C2. Birth rule: after a step, a coordinate that is not in the active set is
\* in the result if and only if every axis of it is in [0, gridSize) and
\* between 5 and 7 of its 26 neighbours are in the active set.
BirthRule ==
    pc = "stepped" =>
        \A c \in (Surroundings(ActiveCoords) \cup ResultCoords) \ ActiveCoords :
            c \in ResultCoords <=>
                /\ InsideGrid(c, gameState.gridSize)
                /\ NeighbourCount(c, ActiveCoords) \in 5..7

\* a step after which a cell is born inside the grid and a dead cell outside the
\* grid with 5 to 7 active neighbours is not
BirthRuleWitness ==
    /\ pc = "stepped"
    /\ \E c \in ResultCoords \ ActiveCoords : InsideGrid(c, gameState.gridSize)
    /\ \E c \in Surroundings(ActiveCoords) \ ActiveCoords :
          /\ ~InsideGrid(c, gameState.gridSize)
          /\ NeighbourCount(c, ActiveCoords) \in 5..7
          /\ c \notin ResultCoords

\* C3. Codec round trip: every position serialized and deserialized comes back
\* as it was, negative axes included, and two different positions never have
\* the same key.
CodecRoundTrip ==
    /\ \A i \in 1..Len(decoded) : decoded[i] = codecIn[i]
    /\ \A i, j \in 1..Len(keys) : codecIn[i] # codecIn[j] => keys[i] # keys[j]

\* two different positions with negative and two-digit axes, both serialized and
\* deserialized
CodecRoundTripWitness ==
    /\ Len(decoded) = 2
    /\ codecIn[1] # codecIn[2]
    /\ \E a \in 1..3 : codecIn[1][a] < 0 - 9
    /\ \E a \in 1..3 : codecIn[2][a] > 9
    /\ \E a \in 1..3 : codecIn[2][a] = 0 - 1

\* C4. countNeighbors(c, active) is the number of cells a of active with
\* a # c and every axis of a within 1 of c's: no bounds are applied, and c
\* itself is never counted.
CountIsNeighbourCount ==
    pc = "counted" => count = NeighbourCount(posArg, ActiveCoords)

\* countNeighbors called on an active cell that has a neighbour with a negative
\* axis and a neighbour with an axis at or beyond gridSize
CountIsNeighbourCountWitness ==
    /\ pc = "counted"
    /\ posArg \in ActiveCoords
    /\ \E a \in ActiveCoords :
          Adjacent(a, posArg) /\ \E i \in 1..3 : a[i] < 0
    /\ \E a \in ActiveCoords :
          Adjacent(a, posArg) /\ \E i \in 1..3 : a[i] >= gameState.gridSize
    /\ \E a \in ActiveCoords :
          Adjacent(a, posArg) /\ InsideGrid(a, gameState.gridSize)

Determinism ==
    pc = "stepped2" => Range(heap[other.ret]) = Range(heap[ret])

\* two calls on Sets that iterate in different orders, with different running
\* and speed, whose results are not empty and iterate in different orders
DeterminismWitness ==
    /\ pc = "stepped2"
    /\ heap[other.state.activeCells] # heap[gameState.activeCells]
    /\ other.state.running # gameState.running
    /\ other.state.speed # gameState.speed
    /\ heap[ret] # <<>>
    /\ heap[other.ret] # heap[ret]

Max0(n) == IF n < 0 THEN 0 ELSE n

\* C7. Seeding bounds: every cell of generateRandomCells(N) has every axis in
\* [0, N), and the Set holds at most as many cells as draws were made, which is
\* floor(N^3 * 0.1) draws when that is positive and none otherwise.
SeedingBounds ==
    pc \in {"seeding", "seeded"} =>
        /\ \A c \in CoordsOf(heap[seed.newActiveCells]) : InsideGrid(c, seed.gridSize)
        /\ Len(heap[seed.newActiveCells]) <= seed.i
        /\ seed.i <= Max0(TotalCells(seed.gridSize))
        /\ pc = "seeded" => seed.i = Max0(TotalCells(seed.gridSize))

\* generateRandomCells has returned after two draws that gave the same cell
SeedingBoundsWitness ==
    /\ pc = "seeded"
    /\ seed.i = 2
    /\ Len(heap[ret]) = 1

\* C7 as the specification states it: the Set returned holds at most
\* floor(N^3 * 0.1) cells, for every N.
SeedAtMostFloor ==
    pc = "seeded" => Len(heap[ret]) <= TotalCells(seed.gridSize)

\* C8. Purity: computeNextGeneration leaves the Set it is given with the members
\* it had, in the object it had them in, and returns a Set object that did not
\* exist before the call.
Purity ==
    [][pc = "idle" /\ pc' = "stepped" =>
          /\ heap'[gameState.activeCells] = heap[gameState.activeCells]
          /\ ret' \notin 1..Len(heap)
          /\ ret' \in 1..Len(heap')]_vars

\* a step whose result differs from its input, neither empty
PurityWitness ==
    /\ pc = "stepped"
    /\ ActiveCoords # {}
    /\ ResultCoords # {}
    /\ ResultCoords # ActiveCoords
    /\ ret # gameState.activeCells

\* C9. Empty stays empty: a step of the empty Set returns the empty Set, for
\* every gridSize, and the published Set stays empty from then on.
EmptyStaysEmpty ==
    [][heap[gameState.activeCells] = <<>> /\ pc \in {"idle", "stepped"} =>
          /\ heap'[gameState'.activeCells] = <<>>
          /\ pc' = "stepped" => heap'[ret'] = <<>>]_vars

\* the empty Set stepped on a grid that has cells
EmptyStaysEmptyWitness ==
    /\ pc = "stepped"
    /\ gameState.gridSize > 0
    /\ heap[gameState.activeCells] = <<>>
    /\ heap[ret] = <<>>

\* C10. Degenerate grid: with gridSize <= 0 generateRandomCells draws nothing
\* and returns the empty Set, and computeNextGeneration returns no cell that
\* was not in the Set it was given.
DegenerateGrid ==
    /\ pc \in {"seeding", "seeded"} /\ seed.gridSize <= 0 =>
          seed.i = 0 /\ heap[seed.newActiveCells] = <<>>
    /\ pc = "stepped" /\ gameState.gridSize <= 0 => ResultCoords \subseteq ActiveCoords

\* a step with gridSize <= 0 that keeps some cells and loses others
DegenerateGridWitness ==
    /\ pc = "stepped"
    /\ gameState.gridSize <= 0
    /\ ResultCoords # {}
    /\ ResultCoords # ActiveCoords

\* C11. Isolated cell dies: a step of a Set holding one cell returns the
\* empty Set, for every cell and gridSize; the instance is (5,5,5) on grid 10.
IsolatedCellDies ==
    pc = "stepped" /\ Len(heap[gameState.activeCells]) = 1 => heap[ret] = <<>>

\* the step of {(5,5,5)} on the grid of size 10 has returned
IsolatedCellDiesWitness ==
    /\ pc = "stepped"
    /\ ActiveCoords = {<<5, 5, 5>>}
    /\ gameState.gridSize = 10
    /\ heap[ret] = <<>>

ExactSurvivalSet == {<<5, 5, 5>>, <<4, 5, 5>>, <<6, 5, 5>>, <<5, 4, 5>>, <<5, 6, 5>>}

\* C12. Exact survival: in the step of {(5,5,5), (4,5,5), (6,5,5), (5,4,5),
\* (5,6,5)} on the grid of size 10, (5,5,5) has exactly 4 active neighbours and
\* is in the result.
ExactSurvival ==
    pc = "stepped" /\ ActiveCoords = ExactSurvivalSet /\ gameState.gridSize = 10 =>
        /\ countNeighbors(heap, <<5, 5, 5>>, gameState.activeCells) = 4
        /\ <<5, 5, 5>> \in ResultCoords

\* that step has returned
ExactSurvivalWitness ==
    /\ pc = "stepped"
    /\ Range(heap[gameState.activeCells]) =
          {serializePosition(c) : c \in ExactSurvivalSet}
    /\ gameState.gridSize = 10
    /\ ret # 0

ExactBirthSet == {<<4, 5, 5>>, <<6, 5, 5>>, <<5, 4, 5>>, <<5, 6, 5>>, <<5, 5, 4>>}

\* C13. Exact birth: in the step of {(4,5,5), (6,5,5), (5,4,5), (5,6,5),
\* (5,5,4)} on the grid of size 10, the dead cell (5,5,5) has exactly 5 active
\* neighbours and is in the result.
ExactBirth ==
    pc = "stepped" /\ ActiveCoords = ExactBirthSet /\ gameState.gridSize = 10 =>
        /\ countNeighbors(heap, <<5, 5, 5>>, gameState.activeCells) = 5
        /\ <<5, 5, 5>> \notin ActiveCoords
        /\ <<5, 5, 5>> \in ResultCoords

\* that step has returned
ExactBirthWitness ==
    /\ pc = "stepped"
    /\ Range(heap[gameState.activeCells]) = {serializePosition(c) : c \in ExactBirthSet}
    /\ gameState.gridSize = 10
    /\ serializePosition(<<5, 5, 5>>) \in Range(heap[ret])

\* a non-empty active Set that lies outside the grid, each cell with 4 to 6
\* active neighbours
OutsideAndStable ==
    /\ ActiveCoords # {}
    /\ \A c \in ActiveCoords :
          /\ ~InsideGrid(c, gameState.gridSize)
          /\ NeighbourCount(c, ActiveCoords) \in 4..6

\* the dead cells inside the grid that the step gives birth to
BornInside ==
    {c \in Surroundings(ActiveCoords) \ ActiveCoords :
        InsideGrid(c, gameState.gridSize) /\ NeighbourCount(c, ActiveCoords) \in 5..7}

\* C19. Out-of-bounds cells persist: the step of an active Set that lies outside
\* the grid, each cell with 4 to 6 active neighbours, keeps every cell of it; it
\* returns the Set unchanged when no dead cell inside the grid has 5 to 7 active
\* neighbours, and otherwise adds exactly those cells.
OutOfBoundsPersist ==
    pc = "stepped" /\ OutsideAndStable =>
        /\ ActiveCoords \subseteq ResultCoords
        /\ ResultCoords \ ActiveCoords = BornInside

\* such a Set stepped on a grid that has cells, and kept whole
OutOfBoundsPersistWitness ==
    /\ pc = "stepped"
    /\ OutsideAndStable
    /\ gameState.gridSize > 0
    /\ ActiveCoords \subseteq ResultCoords

\* C19 as the specification states it: such a Set is returned unchanged.
OutOfBoundsUnchanged ==
    pc = "stepped" /\ OutsideAndStable => ResultCoords = ActiveCoords

\* the updaters of the queue that by gave to setGameState
UpdatesBy(by) == {i \in 1..Len(queue) : queue[i].by = by}

\* an updater of by's is passed to setGameState in this step
Appended(by) ==
    /\ Len(queue') = Len(queue) + 1
    /\ queue'[Len(queue')].by = by

\* step(cells, n) as the rules state it
NextGeneration(cells, n) ==
    {c \in cells : NeighbourCount(c, cells) \in 4..6}
    \cup {c \in Surroundings(cells) \ cells :
            InsideGrid(c, n) /\ NeighbourCount(c, cells) \in 5..7}

\* C14. No overlapping steps: a frame never computes a step while the result of
\* an earlier frame's step still waits to be published.
NoOverlappingSteps == Cardinality(UpdatesBy("frame")) <= 1

\* C15. Seed replaces the active set: when the updaters are applied and a reset
\* is among them, the published Set is the Set the last reset seeded, on the
\* gridSize it asked for.
SeedReplaces ==
    [][queue # <<>> /\ queue' = <<>> /\ UpdatesBy("initializeRandom") # {} =>
          LET i == CHOOSE j \in UpdatesBy("initializeRandom") :
                       \A k \in UpdatesBy("initializeRandom") : k <= j
          IN  /\ heap'[gameState'.activeCells] = heap[queue[i].activeCells]
              /\ gameState'.gridSize = queue[i].gridSize]_vars

\* C16. Pausing withholds steps: the game starts paused; while it is paused no
\* step of a frame waits to be published, and a frame changes neither the game
\* state, nor the queue, nor the accumulator.
PausingWithholdsSteps ==
    /\ ~gameState.running
    /\ [](~gameState.running => UpdatesBy("frame") = {})
    /\ [][~gameState.running /\ Frame =>
             UNCHANGED <<heap, gameState, queue, lastUpdateRef>>]_vars

\* the game paused after it ran, with cells, and time in the accumulator
PausingWithholdsStepsWitness ==
    /\ pc = "mounted"
    /\ ~gameState.running
    /\ lastUpdateRef > 0
    /\ ActiveCoords # {}
    /\ queue = <<>>

\* C17. Pacing: a frame passes at most one step to setGameState, only while
\* running and only when the accumulator with the frame's delta is more than
\* 1 / speed, and then the accumulator is 0; otherwise the frame adds its delta
\* to the accumulator.
Pacing ==
    [][/\ Appended("frame") =>
             /\ gameState.running
             /\ lastUpdateRef' = 0
             /\ (lastUpdateRef + frameDelta') * gameState.speed > 2 * TicksPerSecond
       /\ Cardinality({i \in 1..Len(queue') : queue'[i].by = "frame"})
             <= Cardinality(UpdatesBy("frame")) + 1
       /\ lastUpdateRef' # lastUpdateRef /\ ~Appended("frame") =>
             /\ gameState.running
             /\ queue' = queue
             /\ lastUpdateRef' = lastUpdateRef + frameDelta'
             /\ lastUpdateRef' * gameState.speed <= 2 * TicksPerSecond]_vars

\* a frame of 1 tick has stepped at 1x, on the time earlier frames left
PacingWitness ==
    /\ UpdatesBy("frame") # {}
    /\ gameState.speed = 2
    /\ lastUpdateRef = 0
    /\ frameDelta = 1

\* C18. Manual step: the Step button passes an updater only while paused; the
\* Set it passes is step(activeCells, gridSize) of the published state, and the
\* updater applied alone replaces activeCells by it and leaves gridSize, running
\* and speed as they were.
ManualStep ==
    [][/\ Appended("manual") =>
             /\ ~gameState.running
             /\ CoordsOf(heap'[queue'[Len(queue')].activeCells])
                   = NextGeneration(ActiveCoords, gameState.gridSize)
       /\ Len(queue) = 1 /\ UpdatesBy("manual") # {} /\ queue' = <<>> =>
             /\ heap'[gameState'.activeCells] = heap[queue[1].activeCells]
             /\ gameState'.gridSize = gameState.gridSize
             /\ gameState'.running = gameState.running
             /\ gameState'.speed = gameState.speed]_vars

\* the Step button pressed while paused, on cells of which some live on
ManualStepWitness ==
    /\ queue # <<>>
    /\ queue[1].by = "manual"
    /\ ~gameState.running
    /\ heap[queue[1].activeCells] # <<>>
    /\ heap[queue[1].activeCells] # heap[gameState.activeCells]

\* C20. In-bounds invariant: every cell of the published active Set has each
\* axis in [0, gridSize) of the published gridSize.
InBounds ==
    \A c \in ActiveCoords : InsideGrid(c, gameState.gridSize)

\* C21. The copies of the rules are equivalent: on the same active Set and
\* gridSize, the step of the single-file ConwayGrid and the updater of the
\* single-file handleStep each give a Set that holds exactly the keys of the Set
\* computeNextGeneration gives.
RuleCopiesEquivalent ==
    pc \in {"inlined", "updated"} => Range(heap[other.ret]) = Range(heap[ret])

\* the updater has given the Set of computeNextGeneration, a survivor and a cell
\* born in it, filled in another order
RuleCopiesEquivalentWitness ==
    /\ pc = "updated"
    /\ \E c \in ResultCoords : c \in ActiveCoords
    /\ \E c \in ResultCoords : c \notin ActiveCoords
    /\ heap[other.ret] # heap[ret]

\* C22. Candidate set: the cells a step examines are exactly the active cells
\* and those of their 26 neighbours that have every axis in [0, gridSize); they
\* are at most 27 for each active cell, and the result of the step is among
\* them, so that it has at most 27 cells for each active cell.
CandidateSet ==
    pc = "stepped" =>
        LET candidates == CoordsOf(cellsToCheckOf(heap, gameState))
        IN  /\ candidates = ActiveCoords \cup
                  {n \in Surroundings(ActiveCoords) : InsideGrid(n, gameState.gridSize)}
            /\ Len(cellsToCheckOf(heap, gameState)) = Cardinality(candidates)
            /\ Cardinality(candidates) <= 27 * Cardinality(ActiveCoords)
            /\ ResultCoords \subseteq candidates
            /\ Cardinality(ResultCoords) <= 27 * Cardinality(ActiveCoords)

\* a step that examined an active cell outside the grid and neighbours inside
\* it, left a neighbour outside the grid unexamined, and kept some but not all
\* of the cells it examined
CandidateSetWitness ==
    /\ pc = "stepped"
    /\ LET candidates == CoordsOf(cellsToCheckOf(heap, gameState))
       IN  /\ \E c \in ActiveCoords : ~InsideGrid(c, gameState.gridSize)
           /\ \E n \in candidates : n \notin ActiveCoords
           /\ \E n \in Surroundings(ActiveCoords) : n \notin candidates
           /\ ResultCoords # {}
           /\ ResultCoords # candidates

\* C23. Small populations go extinct: a step of an active Set of fewer than 5
\* cells gives the empty Set, on every gridSize; and once the published Set is
\* empty, it is empty after every further step.
SmallPopulationsGoExtinct ==
    [][/\ Cardinality(ActiveCoords) < 5 /\ pc = "idle" /\ pc' = "stepped" =>
             heap'[ret'] = <<>>
       /\ ActiveCoords = {} /\ pc \in {"idle", "stepped"} =>
             /\ ActiveCoords' = {}
             /\ pc' = "stepped" => heap'[ret'] = <<>>]_vars

\* four cells, each next to the three others, have been stepped to nothing
SmallPopulationsGoExtinctWitness ==
    /\ pc = "stepped"
    /\ Cardinality(ActiveCoords) = 4
    /\ \A c \in ActiveCoords : NeighbourCount(c, ActiveCoords) = 3
    /\ heap[ret] = <<>>

\* the state the first i updaters of the queue give, applied in order to the
\* state of the last render
StateAfter(i) == ApplyAll(gameState, SubSeq(queue, 1, i))

\* the contents generateRandomCells can give for the gridSize n
SeedsFor(n) == {e.cells : e \in {s \in SeededCells : s.gridSize = n}}

\* C24. A reset is one update: the Random button and a grid-size change pass
\* one updater; whatever state it is applied to, the state it gives has running
\* = false, the gridSize asked for (the gridSize of the last render for the
\* Random button) and a Set seeded for that gridSize, and the speed it had; a
\* render that publishes it last publishes that state; and no render publishes
\* another gridSize with the Set of the render before.
AtomicReset ==
    /\ [](\A i \in UpdatesBy("initializeRandom") :
             /\ StateAfter(i).running = FALSE
             /\ StateAfter(i).gridSize = queue[i].gridSize
             /\ heap[StateAfter(i).activeCells] \in SeedsFor(queue[i].gridSize)
             /\ StateAfter(i).speed = StateAfter(i - 1).speed)
    /\ [][/\ RandomButton \/ SelectGridSize =>
                /\ Appended("initializeRandom")
                /\ SubSeq(queue', 1, Len(queue)) = queue
          /\ RandomButton => queue'[Len(queue')].gridSize = gameState.gridSize
          /\ (queue # <<>> /\ queue' = <<>>
                /\ queue[Len(queue)].by = "initializeRandom") =>
                /\ gameState'.running = FALSE
                /\ gameState'.gridSize = queue[Len(queue)].gridSize
                /\ heap'[gameState'.activeCells] \in SeedsFor(gameState'.gridSize)
                /\ gameState'.speed = StateAfter(Len(queue) - 1).speed
          /\ gameState'.gridSize # gameState.gridSize =>
                StateAfter(Len(queue)).activeCells # gameState.activeCells]_vars

\* a game that ran at 5x has been reset to the smaller grid: it is paused, still
\* at 5x, and holds a seed of that grid
AtomicResetWitness ==
    /\ queue = <<>>
    /\ lastUpdateRef > 0
    /\ gameState.gridSize = LeastGridSize
    /\ ~gameState.running
    /\ gameState.speed = 10
    /\ heap[gameState.activeCells] \in SeedsFor(LeastGridSize)

\* C25. The controls change one field: whatever state it is applied to, the
\* updater of the Play/Pause button gives that state with running negated, and
\* the updater of the speed slider gives that state with the speed chosen;
\* activeCells and gridSize are as they were.  The handlers themselves pass that
\* one updater and touch nothing else.
ControlsChangeOneField ==
    /\ [](\A i \in 1..Len(queue) :
             /\ queue[i].by = "toggle" =>
                   StateAfter(i) =
                       [StateAfter(i - 1) EXCEPT !.running = ~StateAfter(i - 1).running]
             /\ queue[i].by = "slider" =>
                   StateAfter(i) = [StateAfter(i - 1) EXCEPT !.speed = queue[i].speed])
    /\ [][/\ ToggleRunning => Appended("toggle")
          /\ ChangeSpeed => Appended("slider")
          /\ Appended("toggle") \/ Appended("slider") =>
                /\ SubSeq(queue', 1, Len(queue)) = queue
                /\ UNCHANGED <<heap, gameState>>
          /\ (Len(queue) = 1 /\ queue' = <<>> /\ queue[1].by = "toggle") =>
                /\ gameState' = [gameState EXCEPT !.running = ~gameState.running]
                /\ heap'[gameState'.activeCells] = heap[gameState.activeCells]
          /\ (Len(queue) = 1 /\ queue' = <<>> /\ queue[1].by = "slider") =>
                /\ gameState' = [gameState EXCEPT !.speed = queue[1].speed]
                /\ heap'[gameState'.activeCells] = heap[gameState.activeCells]]_vars

\* on a running game with cells, the slider was moved and then Pause pressed,
\* neither published yet
ControlsChangeOneFieldWitness ==
    /\ gameState.running
    /\ ActiveCoords # {}
    /\ Len(queue) = 2
    /\ queue[1].by = "slider"
    /\ queue[2].by = "toggle"

\* the updaters the queue holds after its last updater of a timer
AfterLastPopulate ==
    {i \in 1..Len(queue) : \A j \in UpdatesBy("timer") : j < i}

\* C26. Delayed seed: when no timer of initializeRandom is pending any more and
\* a render applies the updater of the last of them, then, whatever frames and
\* control events came in between, the published Set is the Set that timer
\* filled, a seed of the published gridSize, which is the gridSize of the most
\* recent reset.  (A press of the Step button after the timer steps the seed,
\* and is set aside.)
DelayedSeedPublished ==
    [][(/\ queue # <<>> /\ queue' = <<>>
        /\ timers = <<>>
        /\ UpdatesBy("timer") # {}
        /\ \A i \in AfterLastPopulate : queue[i].by # "manual") =>
          LET last == CHOOSE j \in UpdatesBy("timer") : \A k \in UpdatesBy("timer") : k <= j
          IN  /\ heap'[gameState'.activeCells] = heap[queue[last].activeCells]
              /\ \E e \in PopulatedCells :
                    /\ e.gridSize = gameState'.gridSize
                    /\ e.cells = heap'[gameState'.activeCells]]_vars

=============================================================================
